---- MODULE Spec2Model ----
(***************************************************************************)
(* A model of psycopg2's lib/_json.py: the Json parameter wrapper and the  *)
(* registration of the json typecasters (register_json,                    *)
(* register_default_json, _create_json_typecasters, _get_json_oids).       *)
(*                                                                         *)
(* Python's None is modelled in two ways, so that TLC never compares       *)
(* values of different kinds: an optional oid, row or typecaster is a      *)
(* sequence of length 0 (None) or 1 (the value); an optional name          *)
(* (a connection, a function, a module, an exception) is a string and      *)
(* None is the string "None".                                              *)
(***************************************************************************)
EXTENDS Integers, Sequences, FiniteSets, TLC

VARIABLES
    json,       \* the module-level name json: "json" or "None"
    server,     \* the server the connections are to: its version, its pg_type catalog
    conn,       \* per connection: status, autocommit, uncommitted work pending
    tables,     \* the typecaster dictionaries: global, per connection, per cursor
    call,       \* the frame of the register_json call that just ended, if any
    pre,        \* tables and conn as they were when that call began
    ncalls,     \* how many registration calls were made
    wrapper,    \* the Json object under construction/use, if any
    out         \* the outcome of the last Json.dumps / Json.getquoted

vars == <<json, server, conn, tables, call, pre, ncalls, wrapper, out>>

----------------------------------------------------------------------------
(* Bounds *)

MaxCalls == 2
MaxVal == 4

----------------------------------------------------------------------------
(* Optional values *)

None == <<>>
Some(x) == <<x>>

----------------------------------------------------------------------------
(* Module constants *)

JSON_OID == 114
JSONARRAY_OID == 199
TYPARRAY_VERSION == 80300

STATUS_READY == "STATUS_READY"
STATUS_IN_TRANSACTION == "STATUS_BEGIN"

----------------------------------------------------------------------------
(* The world around the module: connections, cursors, servers *)

Conns == {"c1", "c2"}
Cursors == {"k1"}
connection(curs) == "c1"
Targets == Conns \cup Cursors
Scopes == Targets \cup {"global"}

PgTypeBase == << [typname |-> "text", oid |-> 25, typarray |-> 1009] >>
PgTypeJson == Append(PgTypeBase, [typname |-> "json", oid |-> 16400, typarray |-> 16405])

Servers ==
    { [server_version |-> 90100, pg_type |-> PgTypeJson],
      [server_version |-> 80200, pg_type |-> PgTypeJson],
      [server_version |-> 90100, pg_type |-> PgTypeBase] }

OidArgs == {None, Some(JSON_OID)}
ArrayOidArgs == {None, Some(JSONARRAY_OID)}
LoadsArgs == {"None", "custom_loads"}

RECURSIVE SeqRange(_)
SeqRange(s) == IF s = <<>> THEN {} ELSE {Head(s)} \cup SeqRange(Tail(s))

Keys ==
    {None, Some(JSON_OID), Some(JSONARRAY_OID)}
        \cup UNION { {Some(t.oid), Some(t.typarray)} : t \in SeqRange(PgTypeJson) }

EmptyTable == [k \in Keys |-> None]

----------------------------------------------------------------------------
(* Json: the parameter wrapper *)

Digit == <<"0", "1", "2", "3", "4", "5", "6", "7", "8", "9">>
Values == 0 .. MaxVal
DumpsArgs == {"None", "custom_dumps"}

\* the text each serializer produces for a value
Apply(f, v) ==
    IF f = "json.dumps" THEN <<Digit[v + 1]>>
    ELSE <<"c", Digit[v + 1]>>

\* QuotedString(s).getquoted()
QuotedString_getquoted(s) == <<"'">> \o s \o <<"'">>

\* Json.__init__: the value of self._dumps
Json_init_dumps_default_first(dumps, jsonmod) ==
    IF jsonmod # "None" THEN "json.dumps"
    ELSE IF dumps # "None" THEN dumps
    ELSE "None"

Json_init_dumps(dumps, jsonmod) ==
    IF dumps # "None" THEN dumps
    ELSE IF jsonmod # "None" THEN "json.dumps"
    ELSE "None"

\* Json.dumps: [raised, value]
Json_dumps(self, obj) ==
    LET dumps == self._dumps
    IN  IF dumps # "None"
        THEN [raised |-> "None", value |-> Apply(dumps, obj)]
        ELSE [raised |-> "ImportError", value |-> <<>>]

\* Json.getquoted: [raised, value]
Json_getquoted(self) ==
    LET s == Json_dumps(self, self.adapted)
    IN  IF s.raised # "None" THEN s
        ELSE [raised |-> "None", value |-> QuotedString_getquoted(s.value)]

NoOut == [op |-> "None", arg |-> 0, raised |-> "None", value |-> <<>>]

Json_new(adapted, dumps) ==
    /\ wrapper' = Some([adapted |-> adapted, given |-> dumps,
                        _dumps |-> Json_init_dumps(dumps, json)])
    /\ out' = NoOut
    /\ UNCHANGED <<json, server, conn, tables, call, pre, ncalls>>

Json_call_dumps(obj) ==
    /\ wrapper # None
    /\ LET res == Json_dumps(wrapper[1], obj)
       IN  out' = [op |-> "dumps", arg |-> obj, raised |-> res.raised, value |-> res.value]
    /\ UNCHANGED <<json, server, conn, tables, call, pre, ncalls, wrapper>>

Json_call_getquoted ==
    /\ wrapper # None
    /\ LET res == Json_getquoted(wrapper[1])
       IN  out' = [op |-> "getquoted", arg |-> wrapper[1].adapted,
                   raised |-> res.raised, value |-> res.value]
    /\ UNCHANGED <<json, server, conn, tables, call, pre, ncalls, wrapper>>

----------------------------------------------------------------------------
(* The driver: typecaster objects, register_type, typecaster lookup,       *)
(* statement execution and transactions                                    *)

\* new_type((oid, ), name, castobj)
new_type(values, name, loads) ==
    [name |-> name, values |-> values, loads |-> loads]

\* new_array_type((array_oid, ), name, baseobj): the array typecaster
\* parses the array syntax and casts each element with the base typecaster
new_array_type(values, name, base) ==
    [name |-> name, values |-> values, loads |-> base.loads]

\* register_type(obj, scope): obj is stored under each of its values in the
\* dictionary of the cursor or connection given, or in the global one
register_type(tabs, obj, scope) ==
    LET s == IF scope = "None" THEN "global" ELSE scope
    IN  [tabs EXCEPT ![s] = [k \in Keys |->
            IF k \in SeqRange(obj.values) THEN Some(obj) ELSE tabs[s][k]]]

\* the typecaster a target uses for a column of type key: the cursor's own,
\* else its connection's, else the global one
Lookup(tabs, target, key) ==
    LET own  == tabs[target][key]
        mine == IF target \in Cursors THEN tabs[connection(target)][key] ELSE None
    IN  IF own # None THEN own
        ELSE IF mine # None THEN mine
        ELSE tabs["global"][key]

\* curs.execute(sql) on a connection: outside autocommit the first statement
\* opens a transaction
execute(cn) ==
    IF cn.autocommit THEN cn ELSE [cn EXCEPT !.status = STATUS_IN_TRANSACTION]

\* conn.rollback(): the open transaction and what it did are discarded
rollback(cn) == [cn EXCEPT !.status = STATUS_READY, !.pending = FALSE]

\* conn.commit()
commit(cn) == [cn EXCEPT !.status = STATUS_READY, !.pending = FALSE]

\* _solve_conn_curs(conn_or_curs): the connection to query
solve_conn_curs(conn_or_curs) ==
    IF conn_or_curs \in Cursors THEN connection(conn_or_curs) ELSE conn_or_curs

\* _get_json_oids, line 218: the array column the query selects
typarray_column(server_version) ==
    IF server_version >= TYPARRAY_VERSION THEN "typarray" ELSE "NULL"

\* the select list "t.oid, <typarray>" of the query, for the row t of pg_type
select_list_swapped(t, typarray) ==
    <<IF typarray = "typarray" THEN Some(t.typarray) ELSE None, Some(t.oid)>>

select_list(t, typarray) ==
    <<Some(t.oid), IF typarray = "typarray" THEN Some(t.typarray) ELSE None>>

\* the rows "SELECT t.oid, <typarray> FROM pg_type t WHERE t.typname = 'json'"
\* returns
RECURSIVE SelectJson(_, _)
SelectJson(pg_type, typarray) ==
    IF pg_type = <<>> THEN <<>>
    ELSE LET t == Head(pg_type)
             rest == SelectJson(Tail(pg_type), typarray)
         IN  IF t.typname = "json" THEN <<select_list(t, typarray)>> \o rest ELSE rest

\* curs.fetchone(): the first row, or None
fetchone(rows) == IF rows = <<>> THEN None ELSE Some(rows[1])

----------------------------------------------------------------------------
(* The application using the connections between registrations *)

NoCall ==
    [fn |-> "None", conn_or_curs |-> "None", globally |-> FALSE,
     loads |-> "None", arg_oid |-> None, arg_array_oid |-> None,
     oid |-> None, array_oid |-> None,
     JSON |-> None, JSONARRAY |-> None, raised |-> "None", trace |-> <<>>]

Idle == call.fn = "None"

\* a statement of the application's own, in a transaction
app_execute(c) ==
    /\ Idle
    /\ ~conn[c].autocommit
    /\ ~conn[c].pending
    /\ conn' = [conn EXCEPT ![c] = [execute(conn[c]) EXCEPT !.pending = TRUE]]
    /\ pre' = [pre EXCEPT !.conn = conn']
    /\ UNCHANGED <<json, server, tables, call, ncalls, wrapper, out>>

app_commit(c) ==
    /\ Idle
    /\ conn[c].status = STATUS_IN_TRANSACTION
    /\ conn' = [conn EXCEPT ![c] = commit(conn[c])]
    /\ pre' = [pre EXCEPT !.conn = conn']
    /\ UNCHANGED <<json, server, tables, call, ncalls, wrapper, out>>

app_rollback(c) ==
    /\ Idle
    /\ conn[c].status = STATUS_IN_TRANSACTION
    /\ conn' = [conn EXCEPT ![c] = rollback(conn[c])]
    /\ pre' = [pre EXCEPT !.conn = conn']
    /\ UNCHANGED <<json, server, tables, call, ncalls, wrapper, out>>

\* conn.autocommit = b, allowed only outside a transaction
app_set_autocommit(c, b) ==
    /\ Idle
    /\ conn[c].status = STATUS_READY
    /\ conn[c].autocommit # b
    /\ conn' = [conn EXCEPT ![c].autocommit = b]
    /\ pre' = [pre EXCEPT !.conn = conn']
    /\ UNCHANGED <<json, server, tables, call, ncalls, wrapper, out>>

----------------------------------------------------------------------------
(* register_json and its helpers.  Each function returns what it raised    *)
(* ("None" when it returned), its results, the state it leaves and the     *)
(* trace of the driver calls it made, in order.                            *)

\* register_json, line 166: whether the oids are looked up on the server
needs_discovery(oid, array_oid) == oid = None

\* register_json, lines 171 and 174: not globally and conn_or_curs or None
scope_of_ignoring_globally(globally, conn_or_curs) == conn_or_curs

scope_of(globally, conn_or_curs) ==
    IF ~globally /\ conn_or_curs # "None" THEN conn_or_curs ELSE "None"

\* _get_json_oids, line 227
needs_rollback_inverted(conn_status, autocommit) ==
    conn_status = STATUS_IN_TRANSACTION /\ ~autocommit

needs_rollback_any_status(conn_status, autocommit) == ~autocommit

needs_rollback(conn_status, autocommit) ==
    conn_status # STATUS_IN_TRANSACTION /\ ~autocommit

\* _get_json_oids, line 230: not r
not_found_unchecked(r) == FALSE

not_found(r) == r = None

\* _get_json_oids(conn_or_curs): [raised, r, conn, trace]
get_json_oids(conns, conn_or_curs) ==
    IF conn_or_curs = "None"
    THEN [raised |-> "ProgrammingError: no connection or cursor provided",
          r |-> None, conn |-> conns, trace |-> <<>>]
    ELSE LET c == solve_conn_curs(conn_or_curs)
             conn_status == conns[c].status
             typarray == typarray_column(server.server_version)
             executed == execute(conns[c])
             r == fetchone(SelectJson(server.pg_type, typarray))
             back == needs_rollback(conn_status, conns[c].autocommit)
         IN  [raised |-> IF not_found(r) THEN "ProgrammingError: json data type not found"
                         ELSE "None",
              r |-> r,
              conn |-> [conns EXCEPT ![c] = IF back THEN rollback(executed) ELSE executed],
              trace |-> <<"execute">> \o (IF back THEN <<"rollback">> ELSE <<>>)]

\* _create_json_typecasters(oid, array_oid, loads): [raised, JSON, JSONARRAY, trace]
create_json_typecasters(oid, array_oid, loads) ==
    IF loads = "None" /\ json = "None"
    THEN [raised |-> "ImportError", JSON |-> None, JSONARRAY |-> None, trace |-> <<>>]
    ELSE LET loads1 == IF loads = "None" THEN "json.loads" ELSE loads
             JSON == new_type(<<oid>>, "JSON", loads1)
             JSONARRAY == new_array_type(<<array_oid>>, "JSONARRAY", JSON)
         IN  [raised |-> "None", JSON |-> Some(JSON), JSONARRAY |-> Some(JSONARRAY),
              trace |-> <<"new_type", "new_array_type">>]

\* register_json, lines 171-174: [tables, trace]
install_typecasters(tabs, JSON, JSONARRAY, globally, conn_or_curs) ==
    LET t1 == register_type(tabs, JSON[1], scope_of(globally, conn_or_curs))
    IN  IF JSONARRAY # None
        THEN [tables |-> register_type(t1, JSONARRAY[1], scope_of(globally, conn_or_curs)),
              trace |-> <<"register_type", "register_type">>]
        ELSE [tables |-> t1, trace |-> <<"register_type">>]

\* register_json with the scalar typecaster registered as soon as the oids
\* are known, before _create_json_typecasters has looked for a loads function
register_json_body_eager(fn, conn_or_curs, globally, loads, arg_oid, arg_array_oid) ==
    LET frame == [NoCall EXCEPT
                    !.fn = fn, !.conn_or_curs = conn_or_curs, !.globally = globally,
                    !.loads = loads, !.arg_oid = arg_oid, !.arg_array_oid = arg_array_oid,
                    !.oid = arg_oid, !.array_oid = arg_array_oid]
        d == IF needs_discovery(arg_oid, arg_array_oid)
             THEN get_json_oids(conn, conn_or_curs)
             ELSE [raised |-> "None", r |-> Some(<<arg_oid, arg_array_oid>>),
                   conn |-> conn, trace |-> <<>>]
    IN  IF d.raised # "None" \/ d.r = None
        THEN [call |-> [frame EXCEPT !.raised = IF d.r = None /\ d.raised = "None"
                                                THEN "TypeError" ELSE d.raised,
                                     !.trace = d.trace],
              conn |-> d.conn, tables |-> tables]
        ELSE
        LET oid == d.r[1][1]
            array_oid == d.r[1][2]
            JSON == new_type(<<oid>>, "JSON", loads)
            t1 == register_type(tables, JSON, scope_of(globally, conn_or_curs))
            t == create_json_typecasters(oid, array_oid, loads)
        IN  IF t.raised # "None"
            THEN [call |-> [frame EXCEPT !.oid = oid, !.array_oid = array_oid,
                                         !.raised = t.raised,
                                         !.trace = d.trace \o <<"new_type", "register_type">>],
                  conn |-> d.conn, tables |-> t1]
            ELSE
            LET i == install_typecasters(tables, t.JSON, t.JSONARRAY, globally, conn_or_curs)
            IN  [call |-> [frame EXCEPT !.oid = oid, !.array_oid = array_oid,
                                        !.JSON = t.JSON, !.JSONARRAY = t.JSONARRAY,
                                        !.trace = d.trace \o t.trace \o i.trace],
                 conn |-> d.conn, tables |-> i.tables]

\* the body of register_json: the frame, the connections and the tables it leaves
register_json_body(fn, conn_or_curs, globally, loads, arg_oid, arg_array_oid) ==
    LET frame == [NoCall EXCEPT
                    !.fn = fn, !.conn_or_curs = conn_or_curs, !.globally = globally,
                    !.loads = loads, !.arg_oid = arg_oid, !.arg_array_oid = arg_array_oid,
                    !.oid = arg_oid, !.array_oid = arg_array_oid]
        d == IF needs_discovery(arg_oid, arg_array_oid)
             THEN get_json_oids(conn, conn_or_curs)
             ELSE [raised |-> "None", r |-> Some(<<arg_oid, arg_array_oid>>),
                   conn |-> conn, trace |-> <<>>]
    IN  IF d.raised # "None"
        THEN [call |-> [frame EXCEPT !.raised = d.raised, !.trace = d.trace],
              conn |-> d.conn, tables |-> tables]
        ELSE IF d.r = None
        \* oid, array_oid = None
        THEN [call |-> [frame EXCEPT !.raised = "TypeError", !.trace = d.trace],
              conn |-> d.conn, tables |-> tables]
        ELSE
        LET oid == d.r[1][1]
            array_oid == d.r[1][2]
            t == create_json_typecasters(oid, array_oid, loads)
        IN  IF t.raised # "None"
            THEN [call |-> [frame EXCEPT !.oid = oid, !.array_oid = array_oid,
                                         !.raised = t.raised, !.trace = d.trace \o t.trace],
                  conn |-> d.conn, tables |-> tables]
            ELSE
            LET i == install_typecasters(tables, t.JSON, t.JSONARRAY, globally, conn_or_curs)
            IN  [call |-> [frame EXCEPT !.oid = oid, !.array_oid = array_oid,
                                        !.JSON = t.JSON, !.JSONARRAY = t.JSONARRAY,
                                        !.trace = d.trace \o t.trace \o i.trace],
                 conn |-> d.conn, tables |-> i.tables]

Call(fn, conn_or_curs, globally, loads, oid, array_oid) ==
    /\ Idle
    /\ ncalls < MaxCalls
    /\ ncalls' = ncalls + 1
    /\ pre' = [tables |-> tables, conn |-> conn]
    /\ LET res == register_json_body(fn, conn_or_curs, globally, loads, oid, array_oid)
       IN  /\ call' = res.call
           /\ conn' = res.conn
           /\ tables' = res.tables
    /\ UNCHANGED <<json, server, wrapper, out>>

register_json(conn_or_curs, globally, loads, oid, array_oid) ==
    Call("register_json", conn_or_curs, globally, loads, oid, array_oid)

\* register_default_json without the oids passed on
register_default_json_no_oids(conn_or_curs, globally, loads) ==
    Call("register_default_json", conn_or_curs, globally, loads, None, None)

\* register_default_json: register_json with the oids of PostgreSQL 9.2
register_default_json(conn_or_curs, globally, loads) ==
    Call("register_default_json", conn_or_curs, globally, loads,
         Some(JSON_OID), Some(JSONARRAY_OID))

\* the caller goes on: the frame of the call is gone
return ==
    /\ ~Idle
    /\ call' = NoCall
    /\ pre' = [tables |-> tables, conn |-> conn]
    /\ UNCHANGED <<json, server, conn, tables, ncalls, wrapper, out>>

----------------------------------------------------------------------------
(* Initial state *)

Init ==
    /\ json \in {"json", "None"}
    /\ server \in Servers
    /\ conn = [c \in Conns |-> [status |-> STATUS_READY, autocommit |-> FALSE, pending |-> FALSE]]
    /\ tables = [s \in Scopes |-> EmptyTable]
    /\ call = NoCall
    /\ pre = [tables |-> tables, conn |-> conn]
    /\ ncalls = 0
    /\ wrapper = None
    /\ out = NoOut

Next ==
    \/ \E t \in Targets \cup {"None"}, g \in BOOLEAN, l \in LoadsArgs,
          o \in OidArgs, a \in ArrayOidArgs : register_json(t, g, l, o, a)
    \/ \E t \in Targets \cup {"None"}, g \in BOOLEAN, l \in LoadsArgs :
          register_default_json(t, g, l)
    \/ return
    \/ \E c \in Conns : app_execute(c)
    \/ \E c \in Conns : app_commit(c)
    \/ \E c \in Conns : app_rollback(c)
    \/ \E c \in Conns, b \in BOOLEAN : app_set_autocommit(c, b)

Spec == Init /\ [][Next]_vars

JsonNext ==
    \/ \E a \in Values, d \in DumpsArgs : Json_new(a, d)
    \/ \E v \in Values : Json_call_dumps(v)
    \/ Json_call_getquoted

JsonSpec == Init /\ [][JsonNext]_vars

----------------------------------------------------------------------------
(* What the claims speak of *)

Called == call.fn # "None"
Returned == Called /\ call.raised = "None"
Raised == Called /\ call.raised # "None"

RECURSIVE Count(_, _)
Count(tr, e) ==
    IF tr = <<>> THEN 0 ELSE (IF Head(tr) = e THEN 1 ELSE 0) + Count(Tail(tr), e)

\* the first position of e in tr, or Len(tr) + 1
RECURSIVE First(_, _)
First(tr, e) ==
    IF tr = <<>> THEN 1 ELSE IF Head(tr) = e THEN 1 ELSE 1 + First(Tail(tr), e)

\* the connection the call queries, when it was given a connection or cursor
QueriedConn == IF call.conn_or_curs \in Cursors THEN connection(call.conn_or_curs)
               ELSE call.conn_or_curs

Discovering == Called /\ call.arg_oid = None /\ call.conn_or_curs # "None"

JsonRows == {t \in SeqRange(server.pg_type) : t.typname = "json"}

DecodeAvailable == call.loads # "None" \/ json # "None"

----------------------------------------------------------------------------
(* C1: a registration with globally false and a connection or cursor A     *)
(* changes only A's table; every other connection's and cursor's table and *)
(* the global table stay as they were.  A registration with globally true, *)
(* or with no connection or cursor, changes the global table only, and the *)
(* typecaster it registered is the one every connection (and every cursor) *)
(* with no registration of its own for that oid uses.                      *)
C1_ScopeIsolation ==
    Called =>
        IF ~call.globally /\ call.conn_or_curs # "None"
        THEN /\ \A s \in Scopes \ {call.conn_or_curs} : tables[s] = pre.tables[s]
             /\ Returned => \A k \in SeqRange(call.JSON[1].values) :
                                tables[call.conn_or_curs][k] = call.JSON
        ELSE /\ \A s \in Targets : tables[s] = pre.tables[s]
             /\ Returned =>
                  \A k \in SeqRange(call.JSON[1].values) :
                    /\ tables["global"][k] = call.JSON
                    /\ \A c \in Conns :
                         tables[c][k] = None => Lookup(tables, c, k) = call.JSON
                    /\ \A u \in Cursors :
                         (tables[u][k] = None /\ tables[connection(u)][k] = None)
                            => Lookup(tables, u, k) = call.JSON

C1_Witness ==
    /\ Returned
    /\ ~call.globally
    /\ call.conn_or_curs = "c1"
    /\ tables["c1"] # pre.tables["c1"]
    /\ pre.tables["c2"] # EmptyTable
    /\ tables["c2"] = pre.tables["c2"]

(* C2: a discovery on a connection with autocommit off and no transaction  *)
(* open leaves the connection's status as it was, whether the type was     *)
(* found or not.                                                           *)
C2_TransactionStateInvariance ==
    (/\ Discovering
     /\ ~pre.conn[QueriedConn].autocommit
     /\ pre.conn[QueriedConn].status # STATUS_IN_TRANSACTION)
        => /\ Count(call.trace, "execute") = 1
           /\ conn[QueriedConn].status = pre.conn[QueriedConn].status

C2_Witness ==
    /\ Discovering
    /\ ~pre.conn[QueriedConn].autocommit
    /\ pre.conn[QueriedConn].status = STATUS_READY
    /\ call.raised = "ProgrammingError: json data type not found"
    /\ call.trace = <<"execute", "rollback">>
    /\ conn[QueriedConn].status = STATUS_READY

(* C3: a call that ends in an error has changed no typecaster table, and   *)
(* in every call both typecasters are built before the first is            *)
(* registered.                                                             *)
C3_NoPartialRegistration ==
    /\ Raised => tables = pre.tables /\ Count(call.trace, "register_type") = 0
    /\ (Called /\ Count(call.trace, "register_type") > 0) =>
          /\ First(call.trace, "new_type") < First(call.trace, "register_type")
          /\ First(call.trace, "new_array_type") < First(call.trace, "register_type")

C3_Witness ==
    /\ Raised
    /\ call.raised = "ImportError"
    /\ call.arg_oid = None
    /\ call.oid # None
    /\ pre.tables # [s \in Scopes |-> EmptyTable]
    /\ tables = pre.tables

(* C4: with no array oid and a loads function available the typecasters    *)
(* are built without an error, the scalar one is there, the array one is   *)
(* None, and exactly one typecaster is registered.                         *)
C4_MissingArrayOid ==
    (/\ Called
     /\ call.oid # None
     /\ call.array_oid = None
     /\ DecodeAvailable)
        => /\ call.raised = "None"
           /\ call.JSON # None
           /\ call.JSONARRAY = None
           /\ Count(call.trace, "register_type") = 1

(* C5: register_default_json never queries the server, and the typecasters *)
(* it produces are for the oids 114 and 199; it produces them whenever a   *)
(* loads function is given.                                                *)
C5_DefaultOids ==
    call.fn = "register_default_json" =>
        /\ Count(call.trace, "execute") = 0
        /\ conn = pre.conn
        /\ call.loads # "None" => Returned
        /\ Returned => /\ call.JSON # None
                       /\ call.JSON[1].values = <<Some(114)>>
                       /\ call.JSONARRAY # None
                       /\ call.JSONARRAY[1].values = <<Some(199)>>

C5_Witness ==
    /\ call.fn = "register_default_json"
    /\ Returned
    /\ JsonRows = {}
    /\ call.conn_or_curs = "c2"
    /\ call.JSON[1].values = <<Some(114)>>
    /\ tables["c2"][Some(199)] = call.JSONARRAY

(* C6: every call without an oid, on a connection or cursor, queries the   *)
(* server exactly once, before any typecaster is built or registered; the  *)
(* scalar typecaster is for the oid of the row the query returned; a later *)
(* such call queries again.                                                *)
C6_DiscoveryEachCall ==
    Discovering =>
        /\ Count(call.trace, "execute") = 1
        /\ call.trace[1] = "execute"
        /\ Returned => \E t \in JsonRows : call.JSON[1].values = <<Some(t.oid)>>

C6_Witness ==
    /\ Discovering
    /\ Returned
    /\ ncalls = 2
    /\ \E s \in Scopes, t \in JsonRows : pre.tables[s][Some(t.oid)] # None
    /\ Count(call.trace, "execute") = 1

(* C7: when pg_type holds no row for json, discovery raises                *)
(* ProgrammingError "json data type not found" and gives no oids (the      *)
(* caller's oid and array_oid stay as passed, no typecaster is built), and *)
(* so does the register_json call that asked for it.                       *)
C7_NotFound ==
    (Discovering /\ JsonRows = {}) =>
        /\ call.raised = "ProgrammingError: json data type not found"
        /\ call.oid = None
        /\ call.array_oid = call.arg_array_oid
        /\ call.JSON = None
        /\ call.JSONARRAY = None

C7_Witness ==
    /\ Discovering
    /\ JsonRows = {}
    /\ call.fn = "register_json"
    /\ call.raised = "ProgrammingError: json data type not found"
    /\ call.arg_array_oid # None

(* C8: a Json built with a dumps function serializes with it, also when    *)
(* the json module is there; built without one it serializes with          *)
(* json.dumps; with neither the Json is still built, and dumps and         *)
(* getquoted raise ImportError.                                            *)
C8_EncodeFallback ==
    (wrapper # None /\ out.op # "None") =>
        LET w == wrapper[1]
            f == IF w.given # "None" THEN w.given ELSE "json.dumps"
        IN  IF w.given = "None" /\ json = "None"
            THEN out.raised = "ImportError"
            ELSE /\ out.raised = "None"
                 /\ out.op = "dumps" => out.value = Apply(f, out.arg)
                 /\ out.op = "getquoted" =>
                        out.value = QuotedString_getquoted(Apply(f, w.adapted))

C8_Witness ==
    /\ wrapper # None
    /\ json = "json"
    /\ wrapper[1].given = "custom_dumps"
    /\ out.op = "getquoted"
    /\ out.value = <<"'", "c", "2", "'">>

(* C9: a register_json call without an array_oid queries the server, also  *)
(* when the oid is given; no query is made only when both are given.       *)
C9_ArrayOidQueried ==
    (/\ call.fn = "register_json"
     /\ call.conn_or_curs # "None")
        => /\ call.arg_array_oid = None => Count(call.trace, "execute") >= 1
           /\ Count(call.trace, "execute") = 0 =>
                 (call.arg_oid # None /\ call.arg_array_oid # None)

(* C10: discovery rolls back only when the connection was not in a         *)
(* transaction before the call and autocommit is off; a call on a          *)
(* connection in a transaction, or in autocommit, rolls nothing back, and  *)
(* no call discards work pending on any connection.                        *)
C10_CallerTransactionPreserved ==
    Called =>
        /\ Count(call.trace, "rollback") > 0 =>
              /\ call.conn_or_curs # "None"
              /\ pre.conn[QueriedConn].status # STATUS_IN_TRANSACTION
              /\ ~pre.conn[QueriedConn].autocommit
        /\ \A c \in Conns :
              (pre.conn[c].status = STATUS_IN_TRANSACTION \/ pre.conn[c].autocommit)
                 => conn[c] = pre.conn[c]
        /\ \A c \in Conns : pre.conn[c].pending => conn[c].pending

C10_Witness ==
    /\ Discovering
    /\ pre.conn[QueriedConn].status = STATUS_IN_TRANSACTION
    /\ pre.conn[QueriedConn].pending
    /\ Count(call.trace, "execute") = 1
    /\ Count(call.trace, "rollback") = 0
    /\ conn[QueriedConn].pending

====
